---- MODULE Spec2Model ----
(***************************************************************************)
(* PyDlr (src/pydlr.py): a pool of downloader threads sharing one Queue,   *)
(* a kill event and an end ("drain") event.                                *)
(*                                                                         *)
(* Every thread runs PyDlr.Thread.run; the model gives it one step per     *)
(* shared read or write of that loop (the kill check, queue.empty(),       *)
(* queue.get(), the fetch, the callback, the end check).  start(), kill(), *)
(* wait() and addItems() are loops over threads or items and are modelled  *)
(* one iteration per step, so that they interleave with the threads.       *)
(* kill() and wait() are each called at most once, start() once.           *)
(*                                                                         *)
(* Spec is the pool with every operation.  SpecWait, SpecRaise, SpecKill,  *)
(* SpecStop, SpecShutdown, SpecPool, SpecCallback, SpecProduce and         *)
(* SpecFetch are the same actions restricted to the operations and the     *)
(* items of one scenario; the Fair ones add weak fairness of the threads   *)
(* and of the callers, which is what the operating system's scheduler      *)
(* gives to runnable threads.  The variables marked history record what    *)
(* has happened and are read by the properties only.                       *)
(***************************************************************************)
EXTENDS Integers, Sequences, FiniteSets, TLC

\* Bounds of the model.
MaxItems == 2
MaxThreads == 2

\* Python's None.
None == "None"

\* The producer threads that call addItems.
Producers == {"p1", "p2"}

VARIABLES
    numThreads,       \* PyDlr.__init__: numThreads
    items,            \* every PyDlr.Item created so far; an item's id is its index
    queue,            \* PyDlr.queue: the ids of the items in the Queue, oldest first
    unfinished,       \* Queue.unfinished_tasks (put adds one, task_done takes one)
    callback,         \* PyDlr.callback
    defaultCallback,  \* PyDlr.Thread.defaultCallback, per thread
    killEvent,        \* PyDlr._killEvent
    endEvent,         \* PyDlr._endEvent
    pc,               \* per thread: where it is in Thread.run
    item,             \* per thread: the local `item` of run (0: none)
    result,           \* per thread: the local `result` of processItem
    exitVia,          \* per thread: how run ended: kill, drain or error
    startCall,        \* the caller of start(): [pc, idx]
    killCall,         \* the caller of kill(): [pc, idx]
    waitCall,         \* the caller of wait(): [pc, idx]
    adding,           \* per producer: the items its addItems call still has to put
    calls,            \* the callback invocations so far, in order
    errors,           \* per item: error-level log records about it
    warnings,         \* per item: warning-level log records about it
    killWhen,         \* history: where start() was when kill() was called
    queueAtKill,      \* history: the items in the queue when kill() set the kill event
    deqAfterKill,     \* history, per thread: items it took after the kill event was set
    addedDraining,    \* history: items put while the end event was set and a thread ran
    taken,            \* history, per item: how many times queue.get() returned it
    built,            \* history, per item: how many Results were built for it
    outcome,          \* history, per thread: what the transport did for its item
    enqueued,         \* history: the items put in the queue, in the order of the puts
    exitEvents        \* history, per thread: [kill, end], the events set when its loop
                      \* ended at the kill check or the end check (neither before that)

vars == <<numThreads, items, queue, unfinished, callback, defaultCallback, killEvent,
          endEvent, pc, item, result, exitVia, startCall, killCall, waitCall, adding,
          calls, errors, warnings, killWhen, queueAtKill, deqAfterKill, addedDraining,
          taken, built, outcome, enqueued, exitEvents>>

Threads == 1..numThreads

----------------------------------------------------------------------------
\* The URLs of the model: UrlUp is served (the server answers with a good status
\* whenever it is asked), UrlAny is a URL about which nothing is known.
UrlUp == "http://up/"
UrlAny == "http://any/"

\* PyDlr.Item: url (None when the target is not set) and the item's own callback.
Item == [url : {UrlUp, UrlAny, None}, callback : {"itemCb", None}]

\* Items with a served URL and no callback of their own
PlainItem == [url : {UrlUp}, callback : {None}]

\* Items with a served URL
UrlItem == [url : {UrlUp}, callback : {"itemCb", None}]

\* Items with a served URL or none
CallbackItem == [url : {UrlUp, None}, callback : {"itemCb", None}]

\* Items with a URL about which nothing is known and no callback of their own
AnyItem == [url : {UrlAny}, callback : {None}]

\* The lists of at most n items of kinds.
ItemLists(kinds, n) == UNION {[1..k -> kinds] : k \in 0..n}

----------------------------------------------------------------------------
\* requests.exceptions: each class the transport can raise, with its base classes
\* among those PyDlr.get names. "ChunkedEncodingError" stands for the
\* RequestExceptions get does not name, "Exception" for any other error.
Bases(cls) ==
    CASE cls = "ProxyError" -> {"ConnectionError"}
      [] cls = "SSLError" -> {"ConnectionError"}
      [] cls = "ConnectTimeout" -> {"ConnectionError", "Timeout"}
      [] cls = "ReadTimeout" -> {"Timeout"}
      [] cls = "InvalidProxyURL" -> {"InvalidURL"}
      [] OTHER -> {}

ExceptionClasses ==
    {"ProxyError", "SSLError", "ConnectTimeout", "ReadTimeout", "Timeout",
     "ConnectionError", "URLRequired", "TooManyRedirects", "MissingSchema",
     "InvalidSchema", "InvalidHeader", "InvalidProxyURL", "InvalidURL",
     "ChunkedEncodingError", "Exception"}

\* isinstance(err, cls)
IsInstance(err, cls) == err = cls \/ cls \in Bases(err)

\* An except chain with the clauses of Timeout, ConnectionError and InvalidURL
\* ahead of those of their subclasses
ExceptChainGeneralFirst ==
    << <<"HTTPError", "An HTTP error occurred.">>,
       <<"Timeout", "The request timed out.">>,
       <<"ConnectionError", "A Connection error occurred.">>,
       <<"InvalidURL", "The URL provided was somehow invalid.">>,
       <<"ProxyError", "A proxy error occurred.">>,
       <<"SSLError", "An SSL error occurred.">>,
       <<"ConnectTimeout", "The request timed out while trying to connect to the remote server.">>,
       <<"ReadTimeout", "The server did not send any data in the allotted amount of time.">>,
       <<"URLRequired", "A valid URL is required to make a request.">>,
       <<"TooManyRedirects", "Too many redirects.">>,
       <<"MissingSchema", "The URL schema (e.g. http or https) is missing.">>,
       <<"InvalidSchema", "The URL schema is invalid.">>,
       <<"InvalidHeader", "The header value provided was somehow invalid.">>,
       <<"InvalidProxyURL", "The proxy URL provided is invalid.">> >>

\* The except clauses of PyDlr.get, in order: the class and the failureReason.
ExceptChain ==
    << <<"HTTPError", "An HTTP error occurred.">>,
       <<"ProxyError", "A proxy error occurred.">>,
       <<"SSLError", "An SSL error occurred.">>,
       <<"ConnectTimeout", "The request timed out while trying to connect to the remote server.">>,
       <<"ReadTimeout", "The server did not send any data in the allotted amount of time.">>,
       <<"Timeout", "The request timed out.">>,
       <<"ConnectionError", "A Connection error occurred.">>,
       <<"URLRequired", "A valid URL is required to make a request.">>,
       <<"TooManyRedirects", "Too many redirects.">>,
       <<"MissingSchema", "The URL schema (e.g. http or https) is missing.">>,
       <<"InvalidSchema", "The URL schema is invalid.">>,
       <<"InvalidHeader", "The header value provided was somehow invalid.">>,
       <<"InvalidProxyURL", "The proxy URL provided is invalid.">>,
       <<"InvalidURL", "The URL provided was somehow invalid.">> >>

Unexpected == "An unexpected error occurred."

\* The failureReason of the last except clause that could catch err
FailureReasonLastHit(err) ==
    LET hits == {i \in 1..Len(ExceptChain) : IsInstance(err, ExceptChain[i][1])}
    IN IF hits = {} THEN Unexpected
       ELSE ExceptChain[CHOOSE i \in hits : \A j \in hits : i >= j][2]

\* The failureReason of the first except clause that catches err.
FailureReason(err) ==
    LET hits == {i \in 1..Len(ExceptChain) : IsInstance(err, ExceptChain[i][1])}
    IN IF hits = {} THEN Unexpected
       ELSE ExceptChain[CHOOSE i \in hits : \A j \in hits : i <= j][2]

\* What requests.get(url) followed by response.raise_for_status() can do:
\* [response, raised]. A response is "ok" or, with an error status, "error"; an
\* error status makes raise_for_status raise HTTPError. A url of None has no
\* scheme: requests raises MissingSchema.
Transport(url) ==
    CASE url = None -> {[response |-> None, raised |-> "MissingSchema"]}
      [] url = UrlUp -> {[response |-> "ok", raised |-> None]}
      [] OTHER -> {[response |-> "ok", raised |-> None],
                   [response |-> "error", raised |-> "HTTPError"]}
                  \cup {[response |-> None, raised |-> e] : e \in ExceptionClasses}

\* No outcome: the thread has asked the transport for nothing yet
NoOutcome == [response |-> None, raised |-> None]

\* A get without the last clause
ExceptExceptionMissing(err) == FALSE

\* PyDlr.get, line 180: `except Exception` catches every class the transport raises
ExceptException(err) == TRUE

\* get lets the error of an outcome through when no except clause catches it
Propagates(out) ==
    /\ out.raised # None
    /\ \A i \in 1..Len(ExceptChain) : ~IsInstance(out.raised, ExceptChain[i][1])
    /\ ~ExceptException(out.raised)

\* PyDlr.get: (response, failureReason) for an outcome of the transport.
Get(out) ==
    [response |-> out.response,
     failureReason |-> IF out.raised = None THEN None ELSE FailureReason(out.raised)]

\* The error-level records get writes: logger.exception for an unexpected error,
\* logger.error for every failure.
GetErrors(out) ==
    IF out.raised = None THEN 0
    ELSE IF FailureReason(out.raised) = Unexpected THEN 2 ELSE 1

\* A test for a response that is there, whatever its status
TruthyNotNone(response) == response # None

\* bool(response): requests.Response is true when its status is no error.
Truthy(response) == response = "ok"

NoResult == [item |-> 0, response |-> None, isSuccess |-> FALSE, failureReason |-> None]

\* PyDlr.Result.successfulResult
SuccessfulResult(it, response) ==
    [item |-> it, response |-> response, isSuccess |-> TRUE, failureReason |-> None]

\* A failedResult that leaves the failureReason out
FailedResultNoReason(it, response, failureReason) ==
    [item |-> it, response |-> response, isSuccess |-> FALSE, failureReason |-> None]

\* PyDlr.Result.failedResult
FailedResult(it, response, failureReason) ==
    [item |-> it, response |-> response, isSuccess |-> FALSE,
     failureReason |-> failureReason]

\* processItem, lines 333-337: the Result of a (response, failureReason)
BuildResult(it, got) ==
    IF Truthy(got.response)
    THEN SuccessfulResult(it, got.response)
    ELSE FailedResult(it, got.response, got.failureReason)

\* A resolution that prefers the default callback
ResolveCallbackDefaultFirst(itemCallback, default) ==
    IF default # None THEN default ELSE itemCallback

\* processItem, line 340: the callback of an item
ResolveCallback(itemCallback, default) ==
    IF itemCallback # None THEN itemCallback ELSE default

----------------------------------------------------------------------------
\* PyDlr.__init__(items, numThreads, callback), the arguments drawn from the lists
\* of at most MaxItems items of kinds, 1..MaxThreads and cbs
Construct(kinds, cbs) ==
    \E n \in 1..MaxThreads, its \in ItemLists(kinds, MaxItems), cb \in cbs :
        /\ numThreads = n
        /\ items = its
        /\ queue = [i \in 1..Len(its) |-> i]
        /\ unfinished = Len(its)
        /\ callback = cb
        /\ defaultCallback = [t \in 1..n |-> cb]
        /\ killEvent = FALSE
        /\ endEvent = FALSE
        /\ pc = [t \in 1..n |-> "initial"]
        /\ item = [t \in 1..n |-> 0]
        /\ result = [t \in 1..n |-> NoResult]
        /\ exitVia = [t \in 1..n |-> None]
        /\ startCall = [pc |-> "idle", idx |-> 1]
        /\ killCall = [pc |-> "idle", idx |-> 1]
        /\ waitCall = [pc |-> "idle", idx |-> 1]
        /\ adding = [p \in Producers |-> <<>>]
        /\ calls = <<>>
        /\ errors = [i \in 1..Len(its) |-> 0]
        /\ warnings = [i \in 1..Len(its) |-> 0]
        /\ killWhen = None
        /\ queueAtKill = {}
        /\ deqAfterKill = [t \in 1..n |-> 0]
        /\ addedDraining = {}
        /\ taken = [i \in 1..Len(its) |-> 0]
        /\ built = [i \in 1..Len(its) |-> 0]
        /\ outcome = [t \in 1..n |-> NoOutcome]
        /\ enqueued = [i \in 1..Len(its) |-> i]
        /\ exitEvents = [t \in 1..n |-> [kill |-> FALSE, end |-> FALSE]]

Init == Construct(CallbackItem, {"ctorCb", None})

----------------------------------------------------------------------------
\* A put at the head of the queue: a LIFO queue
PutFront(q, i) == <<i>> \o q

\* Queue.put: the queue with one more item
Put(q, i) == Append(q, i)

\* A get that returns the newest item
Newest(q) == q[Len(q)]

\* Queue.get: the item it returns
Oldest(q) == Head(q)

\* A get that returns the oldest item and leaves it in the queue
RestKeepsItem(q) == q

\* Queue.get: the queue it leaves
Rest(q) == Tail(q)

threadVars == <<pc, item, result, exitVia>>
callVars == <<startCall, killCall, waitCall>>
poolVars == <<numThreads, callback, defaultCallback>>
logVars == <<calls, errors, warnings>>
traceVars == <<taken, built, outcome>>
orderVars == <<enqueued, exitEvents>>

\* A loop that never reads the kill event
RunContinuesIgnoresKill(kill) == TRUE

\* Thread.run, line 316: the loop goes on while the kill event is not set
RunContinues(kill) == ~kill

\* Thread.run, line 321: the loop breaks when the end event is set
RunBreaks(end) == end

\* A thread that has started and not ended
Alive(t) == pc[t] \notin {"initial", "finished"}

\* PyDlr.start, line 97
StartCall ==
    /\ startCall.pc = "idle"
    /\ startCall' = [pc |-> "loop", idx |-> 1]
    /\ UNCHANGED <<orderVars, traceVars, poolVars, items, queue, unfinished, killEvent, endEvent, threadVars,
                   killCall, waitCall, adding, logVars, killWhen, queueAtKill, deqAfterKill,
                   addedDraining>>

\* PyDlr.start, lines 98-99: t.start() of the next thread
StartThread ==
    /\ startCall.pc = "loop"
    /\ pc[startCall.idx] = "initial"
    /\ pc' = [pc EXCEPT ![startCall.idx] = "while"]
    /\ startCall' = IF startCall.idx = numThreads
                    THEN [pc |-> "returned", idx |-> startCall.idx]
                    ELSE [pc |-> "loop", idx |-> startCall.idx + 1]
    /\ UNCHANGED <<orderVars, traceVars, poolVars, items, queue, unfinished, killEvent, endEvent, item, result,
                   exitVia, killCall, waitCall, adding, logVars, killWhen, queueAtKill,
                   deqAfterKill, addedDraining>>

\* Thread.run, line 316: the kill check
WhileNotKilled(t) ==
    /\ pc[t] = "while"
    /\ IF RunContinues(killEvent)
       THEN /\ pc' = [pc EXCEPT ![t] = "ifNotEmpty"]
            /\ UNCHANGED exitVia
       ELSE /\ pc' = [pc EXCEPT ![t] = "finished"]
            /\ exitVia' = [exitVia EXCEPT ![t] = "kill"]
    /\ exitEvents' = IF RunContinues(killEvent) THEN exitEvents
                     ELSE [exitEvents EXCEPT ![t] = [kill |-> killEvent, end |-> endEvent]]
    /\ UNCHANGED <<enqueued, traceVars, poolVars, items, queue, unfinished, killEvent, endEvent, item, result,
                   callVars, adding, logVars, killWhen, queueAtKill, deqAfterKill,
                   addedDraining>>

\* Thread.run, line 317: queue.empty()
IfNotEmpty(t) ==
    /\ pc[t] = "ifNotEmpty"
    /\ pc' = [pc EXCEPT ![t] = IF queue # <<>> THEN "get" ELSE "elifEnd"]
    /\ UNCHANGED <<orderVars, traceVars, poolVars, items, queue, unfinished, killEvent, endEvent, item, result,
                   exitVia, callVars, adding, logVars, killWhen, queueAtKill, deqAfterKill,
                   addedDraining>>

\* Thread.run, line 318: queue.get(), which blocks while the queue is empty
QueueGet(t) ==
    /\ pc[t] = "get"
    /\ queue # <<>>
    /\ item' = [item EXCEPT ![t] = Oldest(queue)]
    /\ queue' = Rest(queue)
    /\ pc' = [pc EXCEPT ![t] = "fetch"]
    /\ deqAfterKill' = [deqAfterKill EXCEPT ![t] = @ + (IF killEvent THEN 1 ELSE 0)]
    /\ taken' = [taken EXCEPT ![Oldest(queue)] = @ + 1]
    /\ UNCHANGED <<orderVars, built, outcome, poolVars, items, unfinished, killEvent, endEvent, result, exitVia,
                   callVars, adding, logVars, killWhen, queueAtKill, addedDraining>>

\* A processItem that gives the item up when the kill event is set
FetchUnlessKilled(t) ==
    /\ pc[t] = "fetch"
    /\ IF killEvent
       THEN /\ pc' = [pc EXCEPT ![t] = "while"]
            /\ item' = [item EXCEPT ![t] = 0]
            /\ UNCHANGED <<result, errors, built, outcome>>
       ELSE /\ \E out \in Transport(items[item[t]].url) :
                /\ outcome' = [outcome EXCEPT ![t] = out]
                /\ result' = [result EXCEPT ![t] = BuildResult(item[t], Get(out))]
                /\ errors' = [errors EXCEPT ![item[t]] = @ + GetErrors(out)]
            /\ built' = [built EXCEPT ![item[t]] = @ + 1]
            /\ pc' = [pc EXCEPT ![t] = "callback"]
            /\ UNCHANGED item
    /\ UNCHANGED <<orderVars, taken, poolVars, items, queue, unfinished, killEvent, endEvent, exitVia,
                   callVars, adding, calls, warnings, killWhen, queueAtKill, deqAfterKill,
                   addedDraining>>

\* Thread.processItem, lines 333-337: PyDlr.get and the Result; an error that get
\* lets through is caught by nothing in processItem or run, and the thread ends
Fetch(t) ==
    /\ pc[t] = "fetch"
    /\ \E out \in Transport(items[item[t]].url) :
        /\ outcome' = [outcome EXCEPT ![t] = out]
        /\ IF Propagates(out)
           THEN /\ pc' = [pc EXCEPT ![t] = "finished"]
                /\ exitVia' = [exitVia EXCEPT ![t] = "error"]
                /\ UNCHANGED <<result, errors, built>>
           ELSE /\ result' = [result EXCEPT ![t] = BuildResult(item[t], Get(out))]
                /\ errors' = [errors EXCEPT ![item[t]] = @ + GetErrors(out)]
                /\ built' = [built EXCEPT ![item[t]] = @ + 1]
                /\ pc' = [pc EXCEPT ![t] = "callback"]
                /\ UNCHANGED exitVia
    /\ UNCHANGED <<orderVars, taken, poolVars, items, queue, unfinished, killEvent, endEvent, item,
                   callVars, adding, calls, warnings, killWhen, queueAtKill, deqAfterKill,
                   addedDraining>>

\* A processItem that calls the callback without testing it: calling None raises
\* TypeError, and the thread ends
CallbackWithoutNoneCheck(t) ==
    /\ pc[t] = "callback"
    /\ LET cb == ResolveCallback(items[item[t]].callback, defaultCallback[t])
       IN IF cb # None
          THEN /\ calls' = Append(calls, [item |-> item[t], callback |-> cb])
               /\ unfinished' = unfinished - 1
               /\ pc' = [pc EXCEPT ![t] = "while"]
               /\ UNCHANGED exitVia
          ELSE /\ pc' = [pc EXCEPT ![t] = "finished"]
               /\ exitVia' = [exitVia EXCEPT ![t] = "error"]
               /\ UNCHANGED <<calls, unfinished>>
    /\ item' = [item EXCEPT ![t] = 0]
    /\ result' = [result EXCEPT ![t] = NoResult]
    /\ outcome' = [outcome EXCEPT ![t] = NoOutcome]
    /\ UNCHANGED <<orderVars, taken, built, poolVars, items, queue, killEvent, endEvent, callVars,
                   adding, errors, warnings, killWhen, queueAtKill, deqAfterKill,
                   addedDraining>>

\* Thread.processItem, lines 340-344, then Thread.run, line 320: the callback, if
\* there is one, returns; queue.task_done()
CallbackReturns(t) ==
    /\ pc[t] = "callback"
    /\ LET cb == ResolveCallback(items[item[t]].callback, defaultCallback[t])
       IN IF cb # None
          THEN /\ calls' = Append(calls, [item |-> item[t], callback |-> cb])
               /\ UNCHANGED warnings
          ELSE /\ warnings' = [warnings EXCEPT ![item[t]] = @ + 1]
               /\ UNCHANGED calls
    /\ unfinished' = unfinished - 1
    /\ item' = [item EXCEPT ![t] = 0]
    /\ result' = [result EXCEPT ![t] = NoResult]
    /\ outcome' = [outcome EXCEPT ![t] = NoOutcome]
    /\ pc' = [pc EXCEPT ![t] = "while"]
    /\ UNCHANGED <<orderVars, taken, built, poolVars, items, queue, killEvent, endEvent, exitVia,
                   callVars, adding,
                   errors, killWhen, queueAtKill, deqAfterKill, addedDraining>>

\* Thread.processItem, line 342: the callback raises; nothing in processItem or
\* run catches it, and the thread ends
CallbackRaises(t) ==
    /\ pc[t] = "callback"
    /\ LET cb == ResolveCallback(items[item[t]].callback, defaultCallback[t])
       IN /\ cb # None
          /\ calls' = Append(calls, [item |-> item[t], callback |-> cb])
    /\ item' = [item EXCEPT ![t] = 0]
    /\ result' = [result EXCEPT ![t] = NoResult]
    /\ pc' = [pc EXCEPT ![t] = "finished"]
    /\ exitVia' = [exitVia EXCEPT ![t] = "error"]
    /\ outcome' = [outcome EXCEPT ![t] = NoOutcome]
    /\ UNCHANGED <<orderVars, taken, built, poolVars, items, queue, unfinished, killEvent, endEvent,
                   callVars,
                   adding, errors, warnings, killWhen, queueAtKill, deqAfterKill,
                   addedDraining>>

\* Thread.run, lines 321-322: the end check
ElifEnd(t) ==
    /\ pc[t] = "elifEnd"
    /\ IF RunBreaks(endEvent)
       THEN /\ pc' = [pc EXCEPT ![t] = "finished"]
            /\ exitVia' = [exitVia EXCEPT ![t] = "drain"]
       ELSE /\ pc' = [pc EXCEPT ![t] = "while"]
            /\ UNCHANGED exitVia
    /\ exitEvents' = IF RunBreaks(endEvent)
                     THEN [exitEvents EXCEPT ![t] = [kill |-> killEvent, end |-> endEvent]]
                     ELSE exitEvents
    /\ UNCHANGED <<enqueued, traceVars, poolVars, items, queue, unfinished, killEvent, endEvent, item, result,
                   callVars, adding, logVars, killWhen, queueAtKill, deqAfterKill,
                   addedDraining>>

\* threading.Thread.join of thread idx: raises RuntimeError for a thread that was
\* never started, returns once the thread has ended, blocks until then
Join(call) ==
    IF pc[call.idx] = "initial" THEN [pc |-> "raised", idx |-> call.idx]
    ELSE IF call.idx = numThreads THEN [pc |-> "returned", idx |-> call.idx]
    ELSE [pc |-> "join", idx |-> call.idx + 1]

\* A kill that clears the end event
KillCallClearsEnd ==
    /\ killCall.pc = "idle"
    /\ killEvent' = TRUE
    /\ endEvent' = FALSE
    /\ killCall' = [pc |-> "join", idx |-> 1]
    /\ killWhen' = startCall.pc
    /\ queueAtKill' = {queue[k] : k \in 1..Len(queue)}
    /\ UNCHANGED <<orderVars, traceVars, poolVars, items, queue, unfinished, threadVars,
                   startCall, waitCall, adding, logVars, deqAfterKill, addedDraining>>

\* PyDlr.kill, lines 105-106
KillCall ==
    /\ killCall.pc = "idle"
    /\ killEvent' = TRUE
    /\ killCall' = [pc |-> "join", idx |-> 1]
    /\ killWhen' = startCall.pc
    /\ queueAtKill' = {queue[k] : k \in 1..Len(queue)}
    /\ UNCHANGED <<orderVars, traceVars, poolVars, items, queue, unfinished, endEvent, threadVars, startCall,
                   waitCall, adding, logVars, deqAfterKill, addedDraining>>

\* A kill that does not wait for the thread it joins
KillJoinNoWait ==
    /\ killCall.pc = "join"
    /\ killCall' = Join(killCall)
    /\ UNCHANGED <<orderVars, traceVars, poolVars, items, queue, unfinished, killEvent, endEvent,
                   threadVars, startCall, waitCall, adding, logVars, killWhen, queueAtKill,
                   deqAfterKill, addedDraining>>

\* PyDlr.kill, lines 107-108: t.join() of the next thread
KillJoin ==
    /\ killCall.pc = "join"
    /\ pc[killCall.idx] \in {"initial", "finished"}
    /\ killCall' = Join(killCall)
    /\ UNCHANGED <<orderVars, traceVars, poolVars, items, queue, unfinished, killEvent, endEvent, threadVars,
                   startCall, waitCall, adding, logVars, killWhen, queueAtKill, deqAfterKill,
                   addedDraining>>

\* PyDlr.wait, line 114
WaitCall ==
    /\ waitCall.pc = "idle"
    /\ endEvent' = TRUE
    /\ waitCall' = [pc |-> "poll", idx |-> 1]
    /\ UNCHANGED <<orderVars, traceVars, poolVars, items, queue, unfinished, killEvent, threadVars, startCall,
                   killCall, adding, logVars, killWhen, queueAtKill, deqAfterKill,
                   addedDraining>>

\* PyDlr.wait, lines 116-117: sleeps while the queue is not empty
WaitPoll ==
    /\ waitCall.pc = "poll"
    /\ queue = <<>>
    /\ waitCall' = [pc |-> "join", idx |-> 1]
    /\ UNCHANGED <<orderVars, traceVars, poolVars, items, queue, unfinished, killEvent, endEvent, threadVars,
                   startCall, killCall, adding, logVars, killWhen, queueAtKill, deqAfterKill,
                   addedDraining>>

\* PyDlr.wait, lines 119-120: t.join() of the next thread
WaitJoin ==
    /\ waitCall.pc = "join"
    /\ pc[waitCall.idx] \in {"initial", "finished"}
    /\ waitCall' = Join(waitCall)
    /\ UNCHANGED <<orderVars, traceVars, poolVars, items, queue, unfinished, killEvent, endEvent, threadVars,
                   startCall, killCall, adding, logVars, killWhen, queueAtKill, deqAfterKill,
                   addedDraining>>

\* PyDlr.setCallback
SetCallback ==
    /\ callback' = "setCb"
    /\ UNCHANGED <<orderVars, traceVars, numThreads, defaultCallback, items, queue, unfinished, killEvent,
                   endEvent, threadVars, callVars, adding, logVars, killWhen, queueAtKill,
                   deqAfterKill, addedDraining>>

\* PyDlr.addItems called by producer p with a list of new items of kinds
AddItemsCall(p, kinds) ==
    /\ adding[p] = <<>>
    /\ \E its \in ItemLists(kinds, MaxItems - Len(items)) :
        /\ its # <<>>
        /\ items' = items \o its
        /\ adding' = [adding EXCEPT ![p] = [i \in 1..Len(its) |-> Len(items) + i]]
        /\ errors' = errors \o [i \in 1..Len(its) |-> 0]
        /\ warnings' = warnings \o [i \in 1..Len(its) |-> 0]
        /\ taken' = taken \o [i \in 1..Len(its) |-> 0]
        /\ built' = built \o [i \in 1..Len(its) |-> 0]
    /\ UNCHANGED <<orderVars, outcome, poolVars, queue, unfinished, killEvent, endEvent, threadVars, callVars,
                   calls, killWhen, queueAtKill, deqAfterKill, addedDraining>>

\* PyDlr.addItems, lines 76-77: queue.put of the next item of the list
AddItemsPut(p) ==
    /\ adding[p] # <<>>
    /\ queue' = Put(queue, Head(adding[p]))
    /\ enqueued' = Append(enqueued, Head(adding[p]))
    /\ unfinished' = unfinished + 1
    /\ adding' = [adding EXCEPT ![p] = Tail(@)]
    /\ addedDraining' = IF endEvent /\ \E t \in Threads : Alive(t)
                        THEN addedDraining \cup {Head(adding[p])}
                        ELSE addedDraining
    /\ UNCHANGED <<exitEvents, traceVars, poolVars, items, killEvent, endEvent, threadVars,
                   callVars, logVars,
                   killWhen, queueAtKill, deqAfterKill>>

ThreadStep(t) ==
    \/ WhileNotKilled(t)
    \/ IfNotEmpty(t)
    \/ QueueGet(t)
    \/ Fetch(t)
    \/ CallbackReturns(t)
    \/ ElifEnd(t)

Next ==
    \/ StartCall
    \/ StartThread
    \/ KillCall
    \/ KillJoin
    \/ WaitCall
    \/ WaitPoll
    \/ WaitJoin
    \/ SetCallback
    \/ \E p \in Producers : AddItemsCall(p, CallbackItem)
    \/ \E p \in Producers : AddItemsPut(p)
    \/ \E t \in Threads : ThreadStep(t)
    \/ \E t \in Threads : CallbackRaises(t)

Spec == Init /\ [][Next]_vars


----------------------------------------------------------------------------
\* start(), then wait(): every callback returns
NextWait ==
    \/ StartCall
    \/ StartThread
    \/ startCall.pc = "returned" /\ WaitCall
    \/ WaitPoll
    \/ WaitJoin
    \/ \E t \in Threads : ThreadStep(t)

SpecWait == Construct(UrlItem, {"ctorCb"}) /\ [][NextWait]_vars

\* Every thread, and the caller of start() and of wait(), is scheduled again
FairSpecWait ==
    /\ SpecWait
    /\ WF_vars(StartCall)
    /\ WF_vars(StartThread)
    /\ WF_vars(startCall.pc = "returned" /\ WaitCall)
    /\ WF_vars(WaitPoll)
    /\ WF_vars(WaitJoin)
    /\ \A t \in 1..MaxThreads : WF_vars(t \in Threads /\ ThreadStep(t))

\* start(), then wait(): a callback may raise
NextRaise ==
    \/ StartCall
    \/ StartThread
    \/ startCall.pc = "returned" /\ WaitCall
    \/ WaitPoll
    \/ WaitJoin
    \/ \E t \in Threads : ThreadStep(t)
    \/ \E t \in Threads : CallbackRaises(t)

SpecRaise == Construct(UrlItem, {"ctorCb"}) /\ [][NextRaise]_vars

\* start() and kill(), in any order
NextKill ==
    \/ StartCall
    \/ StartThread
    \/ KillCall
    \/ KillJoin
    \/ \E t \in Threads : ThreadStep(t)

SpecKill == Construct(PlainItem, {"ctorCb"}) /\ [][NextKill]_vars

\* start(), kill() and addItems(), in any order; a callback may raise
NextStop ==
    \/ StartCall
    \/ StartThread
    \/ KillCall
    \/ KillJoin
    \/ \E p \in Producers : AddItemsCall(p, PlainItem)
    \/ \E p \in Producers : AddItemsPut(p)
    \/ \E t \in Threads : ThreadStep(t)
    \/ \E t \in Threads : CallbackRaises(t)

SpecStop == Construct(PlainItem, {"ctorCb"}) /\ [][NextStop]_vars

\* Every thread, and the caller of start() and of kill(), is scheduled again
FairSpecKill ==
    /\ SpecKill
    /\ WF_vars(StartCall)
    /\ WF_vars(StartThread)
    /\ WF_vars(KillCall)
    /\ WF_vars(KillJoin)
    /\ \A t \in 1..MaxThreads : WF_vars(t \in Threads /\ ThreadStep(t))

\* start() and setCallback(), in any order
NextCallback ==
    \/ StartCall
    \/ StartThread
    \/ SetCallback
    \/ \E t \in Threads : ThreadStep(t)

SpecCallback == Construct(CallbackItem, {"ctorCb", None}) /\ [][NextCallback]_vars

\* start() and wait(), in any order, with producers that call addItems
NextProduce ==
    \/ StartCall
    \/ StartThread
    \/ WaitCall
    \/ WaitPoll
    \/ WaitJoin
    \/ \E p \in Producers : AddItemsCall(p, PlainItem)
    \/ \E p \in Producers : AddItemsPut(p)
    \/ \E t \in Threads : ThreadStep(t)

SpecProduce == Construct(PlainItem, {"ctorCb"}) /\ [][NextProduce]_vars

\* start(), kill() and wait(), in any order; a callback may raise
NextShutdown ==
    \/ StartCall
    \/ StartThread
    \/ KillCall
    \/ KillJoin
    \/ WaitCall
    \/ WaitPoll
    \/ WaitJoin
    \/ \E t \in Threads : ThreadStep(t)
    \/ \E t \in Threads : CallbackRaises(t)

SpecShutdown == Construct(PlainItem, {"ctorCb", None}) /\ [][NextShutdown]_vars

\* Every thread is scheduled again
FairSpecShutdown ==
    /\ SpecShutdown
    /\ \A t \in 1..MaxThreads : WF_vars(t \in Threads /\ ThreadStep(t))

\* start(), kill(), wait() and the addItems() of one producer, in any order
NextPool ==
    \/ StartCall
    \/ StartThread
    \/ KillCall
    \/ KillJoin
    \/ WaitCall
    \/ WaitPoll
    \/ WaitJoin
    \/ AddItemsCall("p1", PlainItem)
    \/ AddItemsPut("p1")
    \/ \E t \in Threads : ThreadStep(t)

SpecPool == Construct(PlainItem, {"ctorCb"}) /\ [][NextPool]_vars

\* start() on items whose fetch can end in every way
NextFetch ==
    \/ StartCall
    \/ StartThread
    \/ \E t \in Threads : ThreadStep(t)

SpecFetch == Construct(AnyItem, {"ctorCb"}) /\ [][NextFetch]_vars

----------------------------------------------------------------------------
\* What the properties below speak about.

\* The number of callback invocations for item i
Delivered(i) == Cardinality({k \in 1..Len(calls) : calls[k].item = i})

\* The number of places item i takes in the queue
InQueue(i) == Cardinality({k \in 1..Len(queue) : queue[k] = i})

\* The number of threads that hold item i
Held(i) == Cardinality({t \in Threads : item[t] = i})

\* Item i was put in the queue, taken from it, and its thread is done with it
Completed(i) ==
    /\ InQueue(i) = 0
    /\ Held(i) = 0
    /\ \A p \in Producers : \A k \in 1..Len(adding[p]) : adding[p][k] # i

AllFinished == \A t \in Threads : pc[t] = "finished"

----------------------------------------------------------------------------
\* C1: with N items put in the queue before start(), each with a URL and a callback,
\* W >= 1 threads and wait() as the shutdown, exactly N callback invocations occur,
\* one per item: no item is delivered twice, and once the threads have ended no item
\* is left undelivered.
C1_EveryItemDeliveredOnce ==
    /\ \A i \in 1..Len(items) : Delivered(i) <= 1
    /\ (waitCall.pc # "idle" /\ AllFinished) => \A i \in 1..Len(items) : Delivered(i) = 1

\* C2: wait() called after start() returns in the end, and then the queue is empty and
\* every thread has ended through the end-event branch (every callback returns, no
\* addItems, fair scheduling).
C2_WaitReturns ==
    /\ (waitCall.pc = "poll") ~> (waitCall.pc = "returned")
    /\ [](waitCall.pc = "returned"
            => queue = <<>> /\ \A t \in Threads : pc[t] = "finished" /\ exitVia[t] = "drain")

\* C3, as claimed: an item that is in the queue when kill() sets the kill event is
\* never taken from the queue afterwards, and never delivered to a callback.
C3_NoItemTakenAfterKill ==
    \A i \in queueAtKill : InQueue(i) = 1 /\ Held(i) = 0 /\ Delivered(i) = 0

\* C3, amended: once the kill event is set a thread takes at most one more item from
\* the queue (a thread that had passed the kill check of line 316 before the event
\* was set), and the items left in the queue are never taken.
C3_AtMostOneItemAfterKill == \A t \in Threads : deqAfterKill[t] <= 1

\* C3: kill() has returned; of the items that were in the queue when it set the kill
\* event, one was taken afterwards by a thread that has ended since, and one is
\* still in the queue.
C3_Witness ==
    /\ killCall.pc = "returned"
    /\ \E t \in Threads : deqAfterKill[t] = 1 /\ exitVia[t] = "kill"
    /\ \E i \in queueAtKill : InQueue(i) = 0 /\ Delivered(i) = 1
    /\ \E i \in queueAtKill : InQueue(i) = 1

\* C4: kill() called after start() returns in the end, with every thread ended (every
\* callback returns, fair scheduling).
C4_KillReturns ==
    /\ (killCall.pc = "join" /\ killWhen = "returned") ~> (killCall.pc = "returned")
    /\ [](killCall.pc = "returned" /\ killWhen = "returned" => AllFinished)

\* C5, as claimed: every item that a producer adds while the threads drain the queue is
\* delivered to a callback exactly once: when the threads have ended none is left.
C5_AddedIsDelivered ==
    AllFinished => \A i \in addedDraining : Delivered(i) = 1

\* C5, amended: an item that a producer adds while the threads drain the queue is
\* neither lost nor delivered twice: it is in the queue once, or held by one thread, or
\* was delivered to a callback once.
C5_AddedInOnePlace ==
    \A i \in addedDraining : InQueue(i) + Held(i) + Delivered(i) = 1

\* C5: two items were added while the threads drained the queue, both producers have
\* put theirs, and both items were delivered.
C5_Witness ==
    /\ Cardinality(addedDraining) >= 2
    /\ \A p \in Producers : adding[p] = <<>>
    /\ \A i \in addedDraining : Delivered(i) = 1

\* C6: once setCallback(h) has returned, an item with no callback of its own that a
\* thread processes is delivered to h.
C6_SetCallbackTakesEffect ==
    [][\A t \in Threads :
         (/\ callback = "setCb"
          /\ pc[t] = "callback"
          /\ pc'[t] # "callback"
          /\ items[item[t]].callback = None)
         => (/\ Len(calls') = Len(calls) + 1
             /\ calls'[Len(calls')] = [item |-> item[t], callback |-> "setCb"])]_vars

\* C7: for an item with a callback of its own only that callback is invoked, never the
\* default one, at most once, and once when the item's thread is done with it.
C7_OwnCallbackOnly ==
    \A i \in 1..Len(items) :
        items[i].callback # None =>
            /\ \A k \in 1..Len(calls) :
                   calls[k].item = i => calls[k].callback = items[i].callback
            /\ Delivered(i) <= 1
            /\ Completed(i) => Delivered(i) = 1

\* C7: an item with a callback of its own, in a pool with a default callback, was
\* delivered to its own callback.
C7_Witness ==
    \E i \in 1..Len(items) :
        /\ items[i].callback = "itemCb"
        /\ \A t \in Threads : defaultCallback[t] = "ctorCb"
        /\ Completed(i)
        /\ \E k \in 1..Len(calls) : calls[k] = [item |-> i, callback |-> "itemCb"]

\* C8: no error raised while a thread processes an item ends the thread: a thread ends
\* through the kill event or the end event only.
C8_OnlyKillOrEndTerminates ==
    \A t \in Threads : pc[t] = "finished" => exitVia[t] \in {"kill", "drain"}

\* C9: an item whose url is not set is skipped: no Result is built for it, no callback
\* is invoked for it, and one error-level record is logged.
C9_NoUrlSkipped ==
    \A i \in 1..Len(items) :
        items[i].url = None =>
            /\ \A t \in Threads : result[t].item # i
            /\ Delivered(i) = 0
            /\ Completed(i) => errors[i] = 1

\* C10: with items in the queue, kill() called before start() returns without an error
\* and no callback is ever invoked, also when start() is called afterwards.
C10_KillBeforeStart ==
    (killWhen = "idle" /\ queueAtKill # {}) => (killCall.pc # "raised" /\ calls = <<>>)

\* C11: a thread's queue.get() never blocks: a thread that is about to take an item
\* finds one in the queue, also when other threads take items at the same time.
C11_DequeueNeverBlocks ==
    \A t \in Threads : pc[t] = "get" => queue # <<>>

\* C12: no item is taken from the queue more than once: queue.get() returns an item
\* to one thread only, so at most one thread holds it, at most one Result is built
\* for it and at most one thread passes it to a callback or logs that it has none.
C12_TakenAtMostOnce ==
    \A i \in 1..Len(items) :
        /\ taken[i] <= 1
        /\ Held(i) <= 1
        /\ built[i] <= 1
        /\ Delivered(i) + warnings[i] <= 1
        /\ taken[i] = 1 => InQueue(i) = 0

\* C12: two threads hold an item each at the same time, two different items.
C12_Witness ==
    \E t1, t2 \in Threads :
        /\ t1 # t2
        /\ item[t1] # 0
        /\ item[t2] # 0
        /\ item[t1] # item[t2]
        /\ taken[item[t1]] = 1
        /\ taken[item[t2]] = 1

\* C13: every item that a thread takes from the queue gets its Result in the end,
\* exactly one, and the Result is passed to the item's callback, or else the default
\* one, when there is one, also when kill() or wait() sets its event while the
\* thread works on the item (every fetch returns, fair scheduling of the threads).
\* What was taken stays taken and what was built or delivered stays so: from some
\* moment on every taken item has its one Result, delivered where a callback exists.
C13_TakenIsProcessed ==
    /\ <>[](\A i \in 1..Len(items) :
                taken[i] = 1 =>
                    /\ built[i] = 1
                    /\ IF ResolveCallback(items[i].callback, callback) # None
                       THEN Delivered(i) = 1
                       ELSE Delivered(i) = 0 /\ warnings[i] = 1)
    /\ [](\A i \in 1..Len(items) : built[i] <= taken[i])

\* C13: the kill event and the end event were both set after a thread had taken
\* its item, and the thread has built the item's Result.
C13_Witness ==
    \E t \in Threads :
        /\ pc[t] = "callback"
        /\ killEvent
        /\ endEvent
        /\ deqAfterKill[t] = 0
        /\ built[item[t]] = 1
        /\ result[t].item = item[t]

\* C14: every Result a thread builds has a failureReason exactly when it is not a
\* success, whatever the transport did: answered with a good or an error status, or
\* raised any error.
C14_ReasonIffFailure ==
    \A t \in Threads :
        pc[t] = "callback" =>
            /\ result[t].item = item[t]
            /\ (result[t].failureReason # None) <=> ~result[t].isSuccess
            /\ result[t].isSuccess <=> outcome[t].raised = None

\* C14: one thread has built a successful Result and another a failed one.
C14_Witness ==
    \E t1, t2 \in Threads :
        /\ pc[t1] = "callback"
        /\ pc[t2] = "callback"
        /\ result[t1].isSuccess
        /\ result[t1].failureReason = None
        /\ ~result[t2].isSuccess
        /\ result[t2].failureReason # None

\* C15: when the server answers with an error status (raise_for_status raises
\* HTTPError), the Result is a failure, its failureReason is the one of an HTTP
\* error, and it carries the response.
C15_HttpErrorResult ==
    \A t \in Threads :
        (pc[t] = "callback" /\ outcome[t].raised = "HTTPError") =>
            /\ ~result[t].isSuccess
            /\ result[t].failureReason = "An HTTP error occurred."
            /\ result[t].response # None
            /\ result[t].response = outcome[t].response

\* C15: a thread has built the Result of an answer with an error status.
C15_Witness ==
    \E t \in Threads :
        /\ pc[t] = "callback"
        /\ outcome[t] = [response |-> "error", raised |-> "HTTPError"]
        /\ result[t].response = "error"

\* C16: when the host cannot be reached (the transport raises ConnectionError, or
\* ConnectTimeout), the Result is a failure with no response, and its failureReason
\* is the one of a connection error, respectively of a connect timeout.
C16_UnreachableResult ==
    \A t \in Threads :
        (pc[t] = "callback" /\ outcome[t].raised \in {"ConnectionError", "ConnectTimeout"}) =>
            /\ ~result[t].isSuccess
            /\ result[t].response = None
            /\ result[t].failureReason =
                   IF outcome[t].raised = "ConnectionError"
                   THEN "A Connection error occurred."
                   ELSE "The request timed out while trying to connect to the remote server."

\* C16: one thread has built the Result of a connection error and another the
\* Result of a connect timeout.
C16_Witness ==
    \E t1, t2 \in Threads :
        /\ pc[t1] = "callback"
        /\ pc[t2] = "callback"
        /\ outcome[t1].raised = "ConnectionError"
        /\ outcome[t2].raised = "ConnectTimeout"
        /\ ~result[t1].isSuccess
        /\ ~result[t2].isSuccess

\* C17: get lets no error of the transport through: no thread ends because of one,
\* every error has become a failureReason next to the response, and an error that
\* none of the named except clauses catches has the one `unexpected` reason.
C17_GetNeverRaises ==
    \A t \in Threads :
        /\ exitVia[t] # "error"
        /\ (pc[t] = "callback" /\ outcome[t].raised # None) =>
               /\ result[t].failureReason # None
               /\ result[t].response = outcome[t].response
               /\ errors[item[t]] >= 1
               /\ (\A i \in 1..Len(ExceptChain) :
                        ~IsInstance(outcome[t].raised, ExceptChain[i][1]))
                      => result[t].failureReason = Unexpected

\* C17: a thread has the Result of an error that no named except clause catches.
C17_Witness ==
    \E t \in Threads :
        /\ pc[t] = "callback"
        /\ outcome[t].raised = "Exception"
        /\ result[t].failureReason = Unexpected
        /\ exitVia[t] = None

\* C18: when an item has no callback of its own and the pool has no default one, the
\* thread that is done with the item's Result invokes no callback, logs one warning,
\* drops the Result and goes back to the head of its loop.
C18_NoCallbackIsWarning ==
    [][\A t \in Threads :
         (/\ pc[t] = "callback"
          /\ pc'[t] # "callback"
          /\ items[item[t]].callback = None
          /\ callback = None)
         => (/\ calls' = calls
             /\ warnings' = [warnings EXCEPT ![item[t]] = @ + 1]
             /\ result'[t] = NoResult
             /\ pc'[t] = "while"
             /\ exitVia'[t] = None)]_vars

\* C18: in a pool of one thread with no default callback, an item with no callback
\* of its own got its warning and no callback invocation, and the thread has taken
\* the next item since.
C18_Witness ==
    \E i, j \in 1..Len(items) :
        /\ numThreads = 1
        /\ callback = None
        /\ items[i].callback = None
        /\ Completed(i)
        /\ warnings[i] = 1
        /\ Delivered(i) = 0
        /\ j # i
        /\ Held(j) = 1

\* C19: a thread that was started does not end while neither the kill event nor the
\* end event is set: it polls the queue again, and takes the items that addItems
\* puts later.
C19_RunsUntilKillOrEnd ==
    \A t \in Threads : pc[t] = "finished" => (killEvent \/ endEvent)

\* C20: once kill() has returned no thread takes an item from the queue and no
\* callback is invoked, whatever the queue holds and whatever addItems puts.
C20_NothingAfterKillReturned ==
    [][killCall.pc = "returned"
         => (/\ calls' = calls
             /\ \A i \in 1..Len(items) : taken'[i] = taken[i]
             /\ \A i \in 1..Len(items) : InQueue(i) = 1 => InQueue(i)' = 1
             /\ item' = item)]_vars

\* C20: kill() has returned after the threads ran; the queue holds an item that was
\* there when kill() set the kill event and an item that addItems has put since.
C20_Witness ==
    /\ killCall.pc = "returned"
    /\ \E t \in Threads : exitVia[t] = "kill"
    /\ \E i \in queueAtKill : InQueue(i) = 1
    /\ \E i \in 1..Len(items) : i \notin queueAtKill /\ InQueue(i) = 1 /\ taken[i] = 0

\* C21: the kill event goes before the end event: a thread that makes the kill check
\* of its loop with both events set and items in the queue ends there, through the
\* kill branch, takes no item, and leaves the queue as it is.
C21_KillBeforeEnd ==
    [][\A t \in Threads :
         (/\ pc[t] = "while"
          /\ pc'[t] # "while"
          /\ killEvent
          /\ endEvent
          /\ queue # <<>>)
         => (/\ pc'[t] = "finished"
             /\ exitVia'[t] = "kill"
             /\ item'[t] = 0
             /\ queue' = queue
             /\ taken' = taken)]_vars

\* C21: a thread has ended through the kill branch with both events set, and the
\* queue still holds an item.
C21_Witness ==
    \E t \in Threads :
        /\ exitVia[t] = "kill"
        /\ exitEvents[t] = [kill |-> TRUE, end |-> TRUE]
        /\ deqAfterKill[t] = 0
        /\ queue # <<>>

\* C22: a failure gets the reason of its most specific class: a connect timeout that
\* of ConnectTimeout, a read timeout that of ReadTimeout, a proxy and an SSL error
\* their own, an invalid proxy URL that of InvalidProxyURL; and every except clause
\* can be reached: an error of exactly the clause's class gets the clause's reason.
C22_MostSpecificReason ==
    \A t \in Threads :
        (pc[t] = "callback" /\ outcome[t].raised # None) =>
            LET err == outcome[t].raised
                reason == result[t].failureReason
            IN /\ err = "ConnectTimeout" =>
                      reason = "The request timed out while trying to connect to the remote server."
               /\ err = "ReadTimeout" =>
                      reason = "The server did not send any data in the allotted amount of time."
               /\ err = "ProxyError" => reason = "A proxy error occurred."
               /\ err = "SSLError" => reason = "An SSL error occurred."
               /\ err = "InvalidProxyURL" => reason = "The proxy URL provided is invalid."
               /\ err = "Timeout" => reason = "The request timed out."
               /\ err = "ConnectionError" => reason = "A Connection error occurred."
               /\ err = "InvalidURL" => reason = "The URL provided was somehow invalid."
               /\ \A i \in 1..Len(ExceptChain) :
                      ExceptChain[i][1] = err => reason = ExceptChain[i][2]

\* C22: one thread has the Result of a connect timeout and another the Result of an
\* invalid proxy URL, each with the reason of its own class.
C22_Witness ==
    \E t1, t2 \in Threads :
        /\ pc[t1] = "callback"
        /\ pc[t2] = "callback"
        /\ outcome[t1].raised = "ConnectTimeout"
        /\ outcome[t2].raised = "InvalidProxyURL"
        /\ result[t1].failureReason =
               "The request timed out while trying to connect to the remote server."
        /\ result[t2].failureReason = "The proxy URL provided is invalid."

\* C23: the queue is first in, first out, and a thread is done with an item before
\* it takes the next: in a pool of one thread the callbacks are invoked in the order
\* in which the items were put in the queue (the items of the constructor in list
\* order, then those of addItems in the order of the puts).
C23_SingleThreadFifo ==
    numThreads = 1 =>
        /\ Len(calls) <= Len(enqueued)
        /\ \A k \in 1..Len(calls) : calls[k].item = enqueued[k]

\* C23: the one thread of the pool has invoked the callback for two items, which
\* two producers had put in the queue in the reverse order of their addItems calls.
C23_Witness ==
    /\ numThreads = 1
    /\ enqueued = <<2, 1>>
    /\ Len(calls) = 2
    /\ calls[1].item = 2
    /\ calls[2].item = 1

\* C24: the kill event and the end event are set once and for all, and each by its
\* own operation only: no step of the pool or of a thread clears an event that is
\* set, a step of kill() leaves the end event as it is, a step of wait() leaves the
\* kill event as it is, and no other step sets either.
C24_EventsOneWay ==
    [][/\ killEvent => killEvent'
       /\ endEvent => endEvent'
       /\ killEvent' # killEvent => (killCall' # killCall /\ endEvent' = endEvent)
       /\ endEvent' # endEvent => (waitCall' # waitCall /\ killEvent' = killEvent)
       /\ killCall' # killCall => endEvent' = endEvent
       /\ waitCall' # waitCall => killEvent' = killEvent]_vars

\* C24: wait() had set the end event before kill() set the kill event; both calls
\* have made their steps since, threads have run, and both events are still set.
C24_Witness ==
    /\ killEvent
    /\ endEvent
    /\ killCall.pc \in {"join", "returned"}
    /\ waitCall.pc \in {"join", "returned"}
    /\ \E t \in Threads : exitEvents[t] = [kill |-> FALSE, end |-> TRUE] /\ exitVia[t] = "drain"
    /\ \E t \in Threads : exitEvents[t] = [kill |-> TRUE, end |-> TRUE] /\ exitVia[t] = "kill"
    /\ Len(enqueued) = MaxItems

\* C25: a thread holds an item only between its queue.get() and the end of the
\* item's callback, one item at a time, and takes the next one afterwards; so the
\* items taken and not yet done are at most as many as the threads, and every item
\* that was put in the queue is in exactly one place: in the queue once, or held by
\* one thread, or done (its callback was invoked, or its warning logged).
C25_OnePlacePerItem ==
    /\ \A t \in Threads : item[t] # 0 <=> pc[t] \in {"fetch", "callback"}
    /\ Cardinality({i \in 1..Len(items) :
                       taken[i] >= 1 /\ Delivered(i) + warnings[i] = 0}) <= numThreads
    /\ \A k \in 1..Len(enqueued) :
           InQueue(enqueued[k]) + Held(enqueued[k])
               + Delivered(enqueued[k]) + warnings[enqueued[k]] = 1
    /\ \A i \in 1..Len(items) :
           InQueue(i) + Held(i) + Delivered(i) + warnings[i] >= 1
               => \E k \in 1..Len(enqueued) : enqueued[k] = i

\* C25: of two items put in the queue, one is done and the other is held by a
\* thread that has built its Result; a second thread holds nothing.
C25_Witness ==
    \E i, j \in 1..Len(items) : \E t, u \in Threads :
        /\ Delivered(i) = 1
        /\ Held(i) = 0
        /\ InQueue(i) = 0
        /\ item[t] = j
        /\ pc[t] = "callback"
        /\ Delivered(j) = 0
        /\ u # t
        /\ item[u] = 0
        /\ pc[u] = "ifNotEmpty"

====
